---- MODULE Spec2Model ----
(***************************************************************************)
(* Strategy transformers of axelrod/strategy_transformers.py.              *)
(*                                                                         *)
(* The state is the table of player classes (the base classes and the     *)
(* classes created by decorate), the live player instances with their     *)
(* match histories, and the field of every RetaliationWrapper object.     *)
(* A round of a match is one call of player.strategy(opponent) followed   *)
(* by the runner appending the returned action to the player's history.   *)
(***************************************************************************)
EXTENDS Integers, Sequences, FiniteSets, TLC

VARIABLES classes, players, is_retaliating, last, solo

vars == <<classes, players, is_retaliating, last, solo>>

----------------------------------------------------------------------------
(* Bounds *)

Scale == 4              \* random.random() is drawn from {0/Scale .. (Scale-1)/Scale}
MaxWrapperObjects == 1  \* RetaliationWrapper objects (RetailiateUntilApologyTransformer() calls)
RuaRounds == 5          \* rounds of the single retaliate-until-apology match
DuoPlayers == 2         \* players in interleaved matches
DuoRounds == 2          \* rounds of each of the interleaved matches
MaxLength == 5          \* largest declared tournament length
MaxSeqLen == 3          \* longest sequence given to InitialTransformer / FinalTransformer
SeqRounds == 6          \* rounds of the initial- / final-sequence matches
ComposeDepth == 2       \* transformers stacked on a base class
ComposeRounds == 3      \* rounds of the matches of composed classes
TrackPlayers == 2       \* players of one history-tracking class
TrackRounds == 3        \* rounds of each history-tracking match
StochRounds == 2        \* rounds of the noisy / forgiving matches
BasesRounds == 2        \* rounds of the matches over every kind of base class
ConfigRounds == 2       \* rounds of the matches of misconfigured classes
SerialPlayers == 2      \* players whose matches follow one another
SerialRounds == 2       \* rounds of each of these matches
EmptyRounds == 4        \* rounds of the matches with an empty or no sequence
LastWordSeqLen == 2     \* longest initial sequence stacked with a flip
LastWordRounds == 3     \* rounds of the matches of these stacks
NamesDepth == 2         \* transformers stacked when the names are built
NamesRounds == 1        \* rounds played by a player of a named class
OrderClasses == 2       \* classes derived with the flip and noisy transformers
OrderRounds == 2        \* rounds of the matches of the reordered classes

----------------------------------------------------------------------------
(* Actions and the helpers imported from .actions and .random_ *)

C == "C"
D == "D"
Actions == {C, D}

None == "<None>"
NoneSeq == <<None>>     \* None where a list is expected

flip_action(action) == IF action = C THEN D ELSE C

\* The random source: the sequence of values the coming random.random() calls
\* return, as numerators over Scale.  A draw takes the head.
\* random_choice(p): r = random.random(); C if r < p, else D.
random_choice(p, random) ==
    LET r == Head(random)
    IN  [action |-> IF r < p THEN C ELSE D, random |-> Tail(random)]

Draws == 0 .. (Scale - 1)

KeyError == "KeyError"
TypeError == "TypeError"
IndexError == "IndexError"
IsError(a) == a \notin Actions

\* seq[i] with Python's indexing: 0-based, negative i counts from the end.
PyIndex(seq, i) ==
    LET j == IF i < 0 THEN i + Len(seq) ELSE i
    IN  IF j < 0 \/ j >= Len(seq) THEN IndexError ELSE seq[j + 1]

----------------------------------------------------------------------------
(* Wrappers.  player is [history, length, recorded_history], opponent is   *)
(* [history].  A wrapper that draws takes the random source and returns    *)
(* the action with the source after its draws.                             *)

generic_strategy_wrapper(player, opponent, proposed_action) == proposed_action

flip_wrapper_id(player, opponent, action) == action

flip_wrapper(player, opponent, action) == flip_action(action)

noisy_wrapper_le(player, opponent, action, noise, random) ==
    LET r == Head(random)
    IN  [action |-> IF r <= noise THEN flip_action(action) ELSE action,
         random |-> Tail(random)]

noisy_wrapper_gt(player, opponent, action, noise, random) ==
    LET r == Head(random)
    IN  [action |-> IF r > noise THEN flip_action(action) ELSE action,
         random |-> Tail(random)]

noisy_wrapper(player, opponent, action, noise, random) ==
    LET r == Head(random)
    IN  [action |-> IF r < noise THEN flip_action(action) ELSE action,
         random |-> Tail(random)]

forgiver_wrapper_flip(player, opponent, action, p, random) ==
    IF action = D THEN random_choice(p, random)
    ELSE [action |-> D, random |-> random]

forgiver_wrapper(player, opponent, action, p, random) ==
    IF action = D THEN random_choice(p, random)
    ELSE [action |-> C, random |-> random]

initial_sequence_le(player, opponent, action, initial_seq) ==
    LET index == Len(player.history)
    IN  IF index <= Len(initial_seq) THEN PyIndex(initial_seq, index) ELSE action

initial_sequence(player, opponent, action, initial_seq) ==
    LET index == Len(player.history)
    IN  IF index < Len(initial_seq) THEN PyIndex(initial_seq, index) ELSE action

final_sequence_fwd(player, opponent, action, seq) ==
    LET length == player.length
        index == length - Len(player.history)
    IN  IF length < 0 THEN action
        ELSE IF index <= Len(seq) THEN PyIndex(seq, index - 1) ELSE action

final_sequence(player, opponent, action, seq) ==
    LET length == player.length
        index == length - Len(player.history)
    IN  IF length < 0 THEN action
        ELSE IF index <= Len(seq) THEN PyIndex(seq, 0 - index) ELSE action

\* RetaliationWrapper.__init__
RetaliationWrapper == [is_retaliating |-> FALSE]

RetaliationWrapper__call__first(self, player, opponent, action) ==
    IF Len(player.history) = 0 THEN [action |-> action, self |-> self]
    ELSE IF Len(opponent.history) = 0 THEN [action |-> IndexError, self |-> self]
    ELSE LET last_op == PyIndex(opponent.history, 0)
             s1 == IF last_op = D THEN [self EXCEPT !.is_retaliating = TRUE] ELSE self
         IN  IF s1.is_retaliating
             THEN IF last_op = C
                  THEN [action |-> C, self |-> [s1 EXCEPT !.is_retaliating = FALSE]]
                  ELSE [action |-> D, self |-> s1]
             ELSE [action |-> action, self |-> s1]

RetaliationWrapper__call__sticky(self, player, opponent, action) ==
    IF Len(player.history) = 0 THEN [action |-> action, self |-> self]
    ELSE IF Len(opponent.history) = 0 THEN [action |-> IndexError, self |-> self]
    ELSE LET last_op == PyIndex(opponent.history, -1)
             s1 == IF last_op = D THEN [self EXCEPT !.is_retaliating = TRUE] ELSE self
         IN  IF s1.is_retaliating
             THEN IF last_op = C
                  THEN [action |-> C, self |-> s1]
                  ELSE [action |-> D, self |-> s1]
             ELSE [action |-> action, self |-> s1]

\* RetaliationWrapper.__call__: the returned action and the wrapper after the call
RetaliationWrapper__call__(self, player, opponent, action) ==
    IF Len(player.history) = 0 THEN [action |-> action, self |-> self]
    ELSE IF Len(opponent.history) = 0 THEN [action |-> IndexError, self |-> self]
    ELSE LET last_op == PyIndex(opponent.history, -1)
             s1 == IF last_op = D THEN [self EXCEPT !.is_retaliating = TRUE] ELSE self
         IN  IF s1.is_retaliating
             THEN IF last_op = C
                  THEN [action |-> C, self |-> [s1 EXCEPT !.is_retaliating = FALSE]]
                  ELSE [action |-> D, self |-> s1]
             ELSE [action |-> action, self |-> s1]

\* player._recorded_history: has = the attribute exists
NoRecordedHistory == [has |-> FALSE, log |-> <<>>]

history_track_wrapper_drop(player, opponent, action) ==
    [action |-> action,
     recorded_history |->
        IF player.recorded_history.has
        THEN [has |-> TRUE, log |-> Append(player.recorded_history.log, action)]
        ELSE [has |-> TRUE, log |-> <<>>]]

\* history_track_wrapper: the returned action and player._recorded_history after the call
history_track_wrapper(player, opponent, action) ==
    [action |-> action,
     recorded_history |->
        IF player.recorded_history.has
        THEN [has |-> TRUE, log |-> Append(player.recorded_history.log, action)]
        ELSE [has |-> TRUE, log |-> <<action>>]]

----------------------------------------------------------------------------
(* Transformers: what StrategyTransformerFactory returns (the decorate     *)
(* closure), as the record of the values it closes over.  wrapper_args     *)
(* is the tuple of extra positional arguments: count is its length (0 or   *)
(* 1), num the argument when it is a number (noise, p), seq when it is a   *)
(* sequence.  object is the RetaliationWrapper object the closure holds    *)
(* (0 when the wrapper is a plain function).                               *)

NoArgs == [count |-> 0, num |-> 0, seq |-> <<>>]
NumArg(n) == [count |-> 1, num |-> n, seq |-> <<>>]
SeqArg(s) == [count |-> 1, num |-> 0, seq |-> s]

StrategyTransformerFactory(strategy_wrapper, wrapper_args, name_prefix, object) ==
    [strategy_wrapper |-> strategy_wrapper, wrapper_args |-> wrapper_args,
     name_prefix |-> name_prefix, object |-> object]

FlipTransformer == StrategyTransformerFactory("flip_wrapper", NoArgs, "Flipped", 0)

NoisyTransformer(noise) ==
    StrategyTransformerFactory("noisy_wrapper", NumArg(noise), "Noisy", 0)

ForgiverTransformer(p) ==
    StrategyTransformerFactory("forgiver_wrapper", NumArg(p), "Forgiving", 0)

InitialTransformer(seq) ==
    LET s == IF seq = NoneSeq \/ Len(seq) = 0 THEN <<D, D, D>> ELSE seq
    IN  StrategyTransformerFactory("initial_sequence", SeqArg(s), None, 0)

FinalTransformer(seq) ==
    LET s == IF seq = NoneSeq \/ Len(seq) = 0 THEN <<D, D, D>> ELSE seq
    IN  StrategyTransformerFactory("final_sequence", SeqArg(s), None, 0)

\* object: the RetaliationWrapper() this call constructs
RetailiateUntilApologyTransformer(object) ==
    StrategyTransformerFactory("RetaliationWrapper", NoArgs, "RUA", object)

TrackHistoryTransformer ==
    StrategyTransformerFactory("history_track_wrapper", NoArgs, "HistoryTracking", 0)

NoTransformer == StrategyTransformerFactory("", NoArgs, None, 0)

----------------------------------------------------------------------------
(* Player classes.  own is what the class's __dict__ holds under           *)
(* "strategy": "staticmethod", "function" or "none" (no such key).         *)
(* PlayerClass is the base of the class (0 for Player itself).             *)

BaseClass(cname, name, PlayerClass, own, behaviour) ==
    [cname |-> cname, name |-> name, PlayerClass |-> PlayerClass, own |-> own,
     behaviour |-> behaviour, transformer |-> NoTransformer]

\* Cooperator and Defector: @staticmethod strategy(opponent) returning C / D;
\* Prober: strategy(self, opponent) whose proposal is an input of the round;
\* SubCooperator: class SubCooperator(Cooperator) that does not define strategy;
\* Bare: a class with a name that neither defines nor inherits a strategy.
Cooperator == 1
Defector == 2
Prober == 3
SubCooperator == 4
Bare == 5

BaseClasses ==
    << BaseClass("Cooperator", "Cooperator", 0, "staticmethod", C),
       BaseClass("Defector", "Defector", 0, "staticmethod", D),
       BaseClass("Prober", "Prober", 0, "function", "any"),
       BaseClass("SubCooperator", "Cooperator", Cooperator, "none", "inherited"),
       BaseClass("Bare", "Bare", 0, "none", "none") >>

IsDerived(K, c) == K[c].transformer.strategy_wrapper # ""

\* decorate(PlayerClass): the class type(new_class_name, (PlayerClass,), {...})
decorate_nospace(t, PlayerClass, K) ==
    LET prefixed == t.name_prefix # None
        new_class_name == IF prefixed THEN t.name_prefix \o K[PlayerClass].cname
                          ELSE K[PlayerClass].cname
        name == IF prefixed THEN t.name_prefix \o K[PlayerClass].name
                ELSE K[PlayerClass].name
    IN  [cname |-> new_class_name, name |-> name, PlayerClass |-> PlayerClass,
         own |-> "function", behaviour |-> "wrapped", transformer |-> t]

decorate(t, PlayerClass, K) ==
    LET prefixed == t.name_prefix # None /\ t.name_prefix # ""
        new_class_name == IF prefixed THEN t.name_prefix \o K[PlayerClass].cname
                          ELSE K[PlayerClass].cname
        name == IF prefixed THEN t.name_prefix \o " " \o K[PlayerClass].name
                ELSE K[PlayerClass].name
    IN  [cname |-> new_class_name, name |-> name, PlayerClass |-> PlayerClass,
         own |-> "function", behaviour |-> "wrapped", transformer |-> t]

\* attribute lookup X.strategy along the bases: the class that defines it (0: none)
RECURSIVE resolve(_, _)
resolve(K, X) ==
    IF X = 0 THEN 0
    ELSE IF K[X].own # "none" THEN X
    ELSE resolve(K, K[X].PlayerClass)

----------------------------------------------------------------------------
(* One call of strategy.  st is what the call can change, with the inputs  *)
(* of the round: self (the player instance), is_retaliating (the field of  *)
(* every RetaliationWrapper object), random (the random source),           *)
(* proposal (what a Prober base proposes this round) and base_calls (how   *)
(* many times a base class's strategy has run in this call).  The result   *)
(* is the returned action, or the exception raised, with st after the      *)
(* call.                                                                   *)

\* the numbers of extra positional arguments the wrapper's parameters accept
Accepts(w) ==
    CASE w \in {"flip_wrapper", "RetaliationWrapper", "history_track_wrapper"} -> {0}
      [] w = "noisy_wrapper" -> {0, 1}
      [] w \in {"forgiver_wrapper", "initial_sequence", "final_sequence"} -> {1}
      [] OTHER -> {0, 1}

\* noisy_wrapper's default noise=0.05: r / Scale < 0.05 exactly when r < DefaultNoise
DefaultNoise == ((Scale - 1) \div 20) + 1

\* strategy_wrapper(self, opponent, proposed_action, *wrapper_args)
strategy_wrapper(t, st, opponent, proposed_action) ==
    LET w == t.strategy_wrapper
        args == IF w = "noisy_wrapper" /\ t.wrapper_args.count = 0
                THEN NumArg(DefaultNoise) ELSE t.wrapper_args
    IN  CASE t.wrapper_args.count \notin Accepts(w) ->
               [action |-> TypeError, st |-> st]
          [] w = "flip_wrapper" ->
               [action |-> flip_wrapper(st.self, opponent, proposed_action), st |-> st]
          [] w = "noisy_wrapper" ->
               LET r == noisy_wrapper(st.self, opponent, proposed_action, args.num, st.random)
               IN  [action |-> r.action, st |-> [st EXCEPT !.random = r.random]]
          [] w = "forgiver_wrapper" ->
               LET r == forgiver_wrapper(st.self, opponent, proposed_action, args.num, st.random)
               IN  [action |-> r.action, st |-> [st EXCEPT !.random = r.random]]
          [] w = "initial_sequence" ->
               [action |-> initial_sequence(st.self, opponent, proposed_action, args.seq),
                st |-> st]
          [] w = "final_sequence" ->
               [action |-> final_sequence(st.self, opponent, proposed_action, args.seq),
                st |-> st]
          [] w = "RetaliationWrapper" ->
               LET r == RetaliationWrapper__call__(
                            [is_retaliating |-> st.is_retaliating[t.object]],
                            st.self, opponent, proposed_action)
               IN  [action |-> r.action,
                    st |-> [st EXCEPT !.is_retaliating[t.object] = r.self.is_retaliating]]
          [] w = "history_track_wrapper" ->
               LET r == history_track_wrapper(st.self, opponent, proposed_action)
               IN  [action |-> r.action,
                    st |-> [st EXCEPT !.self.recorded_history = r.recorded_history]]
          [] OTHER ->
               [action |-> generic_strategy_wrapper(st.self, opponent, proposed_action),
                st |-> st]

\* the arguments the strategy found in a class's __dict__ takes
Signature(own) == IF own = "staticmethod" THEN <<"opponent">> ELSE <<"self", "opponent">>

\* the arguments decorate's strategy passes to PlayerClass.strategy: (opponent)
\* when PlayerClass.__dict__["strategy"] is a staticmethod, else (self, opponent)
StrategyArgs(own) ==
    IF own = "staticmethod" THEN <<"opponent">> ELSE <<"self", "opponent">>

RECURSIVE call_strategy(_, _, _, _, _)
RECURSIVE strategy(_, _, _, _)

\* X.strategy(*args): the strategy the class X has or inherits, called with args
call_strategy(K, X, args, st, opponent) ==
    LET d == resolve(K, X)
    IN  IF d = 0 THEN [action |-> "AttributeError", st |-> st]
        ELSE IF args # Signature(K[d].own) THEN [action |-> TypeError, st |-> st]
        ELSE IF IsDerived(K, d) THEN strategy(K, d, st, opponent)
        ELSE [action |-> IF K[d].behaviour = "any" THEN st.proposal ELSE K[d].behaviour,
              st |-> [st EXCEPT !.base_calls = @ + 1]]

strategy_twice(K, new_class, st, opponent) ==
    LET PlayerClass == K[new_class].PlayerClass
        own == K[PlayerClass].own
    IN  IF own = "none" THEN [action |-> KeyError, st |-> st]
        ELSE LET first == call_strategy(K, PlayerClass, StrategyArgs(own), st, opponent)
                 proposed == IF IsError(first.action) THEN first
                             ELSE call_strategy(K, PlayerClass, StrategyArgs(own), first.st, opponent)
             IN  IF IsError(proposed.action) THEN proposed
                 ELSE strategy_wrapper(K[new_class].transformer, proposed.st, opponent,
                                       proposed.action)

\* the strategy(self, opponent) that decorate defines for the class new_class
strategy(K, new_class, st, opponent) ==
    LET PlayerClass == K[new_class].PlayerClass
        own == K[PlayerClass].own
    IN  IF own = "none" THEN [action |-> KeyError, st |-> st]
        ELSE LET proposed == call_strategy(K, PlayerClass, StrategyArgs(own), st, opponent)
             IN  IF IsError(proposed.action) THEN proposed
                 ELSE strategy_wrapper(K[new_class].transformer, proposed.st, opponent,
                                       proposed.action)

\* player.strategy(opponent) on an instance: the attribute is bound to the instance
play(K, st, opponent) ==
    LET d == resolve(K, st.self.class)
    IN  IF d = 0 THEN [action |-> "AttributeError", st |-> st]
        ELSE call_strategy(K, d, Signature(K[d].own), st, opponent)

\* the action the base class under the class X proposes
RECURSIVE baseline(_, _, _)
baseline(K, X, proposal) ==
    LET d == resolve(K, X)
    IN  IF d = 0 THEN "AttributeError"
        ELSE IF IsDerived(K, d) THEN baseline(K, K[d].PlayerClass, proposal)
        ELSE IF K[d].behaviour = "any" THEN proposal ELSE K[d].behaviour

\* the number of classes made by decorate on the way from X down to its base class
RECURSIVE depth(_, _)
depth(K, X) ==
    IF X = 0 THEN 0
    ELSE IF IsDerived(K, X) THEN 1 + depth(K, K[X].PlayerClass)
    ELSE 0

----------------------------------------------------------------------------
(* State and operations *)

Player(class, length) ==
    [class |-> class, history |-> <<>>, opponent_history |-> <<>>, length |-> length,
     recorded_history |-> NoRecordedHistory, raised |-> ""]

NoCall == [player |-> 0, round |-> 0, proposed |-> C, random |-> <<>>, draws |-> 0,
           base_calls |-> 0, action |-> C, before |-> [o \in 1 .. MaxWrapperObjects |-> FALSE]]

Init ==
    /\ classes = BaseClasses
    /\ players = <<>>
    /\ is_retaliating = [o \in 1 .. MaxWrapperObjects |-> RetaliationWrapper.is_retaliating]
    /\ last = NoCall
    /\ solo = <<>>

\* new_class = t(PlayerClass): a transformer applied to a class
Decorate_rename(t, PlayerClass) ==
    /\ PlayerClass \in 1 .. Len(classes)
    /\ classes' = Append([classes EXCEPT ![PlayerClass].name = decorate(t, PlayerClass, classes).name,
                                         ![PlayerClass].cname = decorate(t, PlayerClass, classes).cname],
                         decorate(t, PlayerClass, classes))
    /\ UNCHANGED <<players, is_retaliating, last, solo>>

Decorate(t, PlayerClass) ==
    /\ PlayerClass \in 1 .. Len(classes)
    /\ classes' = Append(classes, decorate(t, PlayerClass, classes))
    /\ UNCHANGED <<players, is_retaliating, last, solo>>

\* a player instance of the class is constructed for a match of the declared length
NewPlayer(class, length) ==
    /\ class \in 1 .. Len(classes)
    /\ players' = Append(players, Player(class, length))
    /\ solo' = Append(solo, [is_retaliating |-> [o \in 1 .. MaxWrapperObjects |->
                                  RetaliationWrapper.is_retaliating],
                             history |-> <<>>])
    /\ UNCHANGED <<classes, is_retaliating, last>>

\* one round of player p's match: p.strategy(opponent) is called, then the runner
\* appends the returned action and the opponent's action to the histories
Round(p, proposal, random, opponent_action) ==
    /\ p \in 1 .. Len(players)
    /\ players[p].raised = ""
    /\ LET self == players[p]
           opponent == [history |-> self.opponent_history]
           res == play(classes, [self |-> self, is_retaliating |-> is_retaliating,
                                 random |-> random, proposal |-> proposal,
                                 base_calls |-> 0], opponent)
           alone == play(classes, [self |-> [self EXCEPT !.history = solo[p].history],
                                   is_retaliating |-> solo[p].is_retaliating,
                                   random |-> random, proposal |-> proposal,
                                   base_calls |-> 0], opponent)
       IN  /\ players' = [players EXCEPT ![p] =
                  IF IsError(res.action)
                  THEN [res.st.self EXCEPT !.raised = res.action]
                  ELSE [res.st.self EXCEPT !.history = Append(@, res.action),
                                           !.opponent_history = Append(@, opponent_action)]]
           /\ is_retaliating' = res.st.is_retaliating
           /\ last' = [player |-> p, round |-> Len(self.history),
                       proposed |-> baseline(classes, self.class, proposal),
                       random |-> SubSeq(random, 1, Len(random) - Len(res.st.random)),
                       draws |-> Len(random) - Len(res.st.random),
                       base_calls |-> res.st.base_calls,
                       action |-> res.action, before |-> is_retaliating]
           /\ solo' = [solo EXCEPT ![p] =
                  [is_retaliating |-> alone.st.is_retaliating,
                   history |-> IF IsError(alone.action) THEN @.history
                               ELSE Append(@.history, alone.action)]]
    /\ UNCHANGED classes

\* the number of wrappers under the class X that may draw a random number
RECURSIVE drawing(_, _)
drawing(K, X) ==
    IF X = 0 THEN 0
    ELSE IF ~IsDerived(K, X) THEN 0
    ELSE (IF K[X].transformer.strategy_wrapper \in {"noisy_wrapper", "forgiver_wrapper"}
          THEN 1 ELSE 0) + drawing(K, K[X].PlayerClass)

\* the draws random.random() can return during one call, one per drawing wrapper
RandomSource(class) == [1 .. drawing(classes, class) -> Draws]

NumBases == Len(BaseClasses)
DerivedClasses == (NumBases + 1) .. Len(classes)

----------------------------------------------------------------------------
(* SpecRua: one retaliate-until-apology transformer applied to one base    *)
(* class, one player of the derived class, any opponent.                   *)

RuaTransformers == {RetailiateUntilApologyTransformer(o) : o \in 1 .. MaxWrapperObjects}

RuaDecorate ==
    /\ Len(classes) < NumBases + 1
    /\ \E t \in RuaTransformers, PlayerClass \in {Cooperator, Prober} :
           Decorate(t, PlayerClass)

RuaNewPlayer ==
    /\ Len(players) < 1
    /\ \E class \in DerivedClasses : NewPlayer(class, -1)

RuaRound ==
    \E p \in 1 .. Len(players) :
        /\ Len(players[p].history) < RuaRounds
        /\ \E proposal \in Actions, opponent_action \in Actions :
           \E random \in RandomSource(players[p].class) :
               Round(p, proposal, random, opponent_action)

RuaNext == RuaDecorate \/ RuaNewPlayer \/ RuaRound

SpecRua == Init /\ [][RuaNext]_vars

----------------------------------------------------------------------------
(* SpecDuo: retaliate-until-apology transformers applied to one or two     *)
(* base classes, DuoPlayers players of the derived classes in matches      *)
(* whose rounds interleave in any order.                                   *)

DuoDecorate ==
    /\ Len(classes) < NumBases + 2
    /\ \E t \in RuaTransformers, PlayerClass \in {Cooperator, Defector, Prober} :
           Decorate(t, PlayerClass)

DuoNewPlayer ==
    /\ Len(players) < DuoPlayers
    /\ \E class \in DerivedClasses : NewPlayer(class, -1)

DuoRound ==
    \E p \in 1 .. Len(players) :
        /\ Len(players[p].history) < DuoRounds
        /\ \E proposal \in Actions, opponent_action \in Actions :
           \E random \in RandomSource(players[p].class) :
               Round(p, proposal, random, opponent_action)

DuoNext == DuoDecorate \/ DuoNewPlayer \/ DuoRound

SpecDuo == Init /\ [][DuoNext]_vars

----------------------------------------------------------------------------
(* SpecSeq: InitialTransformer(seq) or FinalTransformer(seq) applied to    *)
(* one base class, one player of the derived class in a match of declared  *)
(* length -1 (unknown) or 0 .. MaxLength, against a cooperating opponent   *)
(* (neither wrapper reads the opponent).  The runner may play on after the *)
(* declared length.                                                        *)

SeqsOfLen(n) == [1 .. n -> Actions]
Seqs == UNION {SeqsOfLen(n) : n \in 1 .. MaxSeqLen}

SeqTransformers ==
    {InitialTransformer(seq) : seq \in Seqs} \cup {FinalTransformer(seq) : seq \in Seqs}

SeqDecorate ==
    /\ Len(classes) < NumBases + 1
    /\ \E t \in SeqTransformers, PlayerClass \in {Cooperator, Prober} :
           Decorate(t, PlayerClass)

SeqNewPlayer ==
    /\ Len(players) < 1
    /\ \E class \in DerivedClasses, length \in -1 .. MaxLength : NewPlayer(class, length)

SeqRound ==
    \E p \in 1 .. Len(players) :
        /\ Len(players[p].history) < SeqRounds
        /\ \E proposal \in Actions :
           \E random \in RandomSource(players[p].class) :
               Round(p, proposal, random, C)

SeqNext == SeqDecorate \/ SeqNewPlayer \/ SeqRound

SpecSeq == Init /\ [][SeqNext]_vars

----------------------------------------------------------------------------
(* SpecCompose: FlipTransformer and TrackHistoryTransformer stacked up to  *)
(* ComposeDepth deep on a base class that defines its strategy, one player *)
(* of a derived class.                                                     *)

ComposeTransformers == {FlipTransformer, TrackHistoryTransformer}

ComposeDecorate ==
    \E t \in ComposeTransformers, PlayerClass \in {Cooperator, Prober} \cup DerivedClasses :
        /\ depth(classes, PlayerClass) < ComposeDepth
        /\ Len(classes) < NumBases + ComposeDepth
        /\ Decorate(t, PlayerClass)

ComposeNewPlayer ==
    /\ Len(players) < 1
    /\ \E class \in DerivedClasses : NewPlayer(class, -1)

ComposeRound ==
    \E p \in 1 .. Len(players) :
        /\ Len(players[p].history) < ComposeRounds
        /\ \E proposal \in Actions :
           \E random \in RandomSource(players[p].class) :
               Round(p, proposal, random, C)

ComposeNext == ComposeDecorate \/ ComposeNewPlayer \/ ComposeRound

SpecCompose == Init /\ [][ComposeNext]_vars

----------------------------------------------------------------------------
(* SpecTrack: TrackHistoryTransformer applied once to a base class that    *)
(* defines its strategy, TrackPlayers players of the derived class in      *)
(* matches whose rounds interleave in any order.                           *)

TrackDecorate ==
    /\ Len(classes) < NumBases + 1
    /\ \E PlayerClass \in {Cooperator, Prober} :
           Decorate(TrackHistoryTransformer, PlayerClass)

TrackNewPlayer ==
    /\ Len(players) < TrackPlayers
    /\ \E class \in DerivedClasses : NewPlayer(class, -1)

TrackRound ==
    \E p \in 1 .. Len(players) :
        /\ Len(players[p].history) < TrackRounds
        /\ \E proposal \in Actions :
           \E random \in RandomSource(players[p].class) :
               Round(p, proposal, random, C)

TrackNext == TrackDecorate \/ TrackNewPlayer \/ TrackRound

SpecTrack == Init /\ [][TrackNext]_vars

----------------------------------------------------------------------------
(* SpecStoch: NoisyTransformer(noise) or ForgiverTransformer(p), with      *)
(* noise and p in {0/Scale .. Scale/Scale}, applied to one base class, one *)
(* player of the derived class.                                            *)

StochTransformers ==
    {NoisyTransformer(noise) : noise \in 0 .. Scale}
        \cup {ForgiverTransformer(prob) : prob \in 0 .. Scale}

StochDecorate ==
    /\ Len(classes) < NumBases + 1
    /\ \E t \in StochTransformers, PlayerClass \in {Cooperator, Defector, Prober} :
           Decorate(t, PlayerClass)

StochNewPlayer ==
    /\ Len(players) < 1
    /\ \E class \in DerivedClasses : NewPlayer(class, -1)

StochRound ==
    \E p \in 1 .. Len(players) :
        /\ Len(players[p].history) < StochRounds
        /\ \E proposal \in Actions :
           \E random \in RandomSource(players[p].class) :
               Round(p, proposal, random, C)

StochNext == StochDecorate \/ StochNewPlayer \/ StochRound

SpecStoch == Init /\ [][StochNext]_vars

----------------------------------------------------------------------------
(* SpecBases: FlipTransformer applied to every kind of base class: one     *)
(* with a static strategy, one with an instance strategy, one that         *)
(* inherits its strategy, and a class that is itself derived.              *)

BasesDecorate ==
    /\ Len(classes) < NumBases + 2
    /\ \E PlayerClass \in {Cooperator, Defector, Prober, SubCooperator} \cup DerivedClasses :
           Decorate(FlipTransformer, PlayerClass)

BasesNewPlayer ==
    /\ Len(players) < 1
    /\ \E class \in DerivedClasses : NewPlayer(class, -1)

BasesRound ==
    \E p \in 1 .. Len(players) :
        /\ Len(players[p].history) < BasesRounds
        /\ \E proposal \in Actions, opponent_action \in Actions :
           \E random \in RandomSource(players[p].class) :
               Round(p, proposal, random, opponent_action)

BasesNext == BasesDecorate \/ BasesNewPlayer \/ BasesRound

SpecBases == Init /\ [][BasesNext]_vars

----------------------------------------------------------------------------
(* SpecConfig: a well-formed transformer (FlipTransformer), one whose      *)
(* wrapper cannot take the arguments it is given (flip_wrapper with an     *)
(* extra argument) and one that lacks an argument its wrapper requires     *)
(* (forgiver_wrapper without p), applied to a base class with a strategy,  *)
(* to one without, or to a derived class; one player of a derived class.   *)

\* built with the factory directly: name_prefix keeps its default None
FlipWithExtraArg == StrategyTransformerFactory("flip_wrapper", NumArg(1), None, 0)
ForgiverWithoutArg == StrategyTransformerFactory("forgiver_wrapper", NoArgs, None, 0)

ConfigTransformers == {FlipTransformer, FlipWithExtraArg, ForgiverWithoutArg}

ConfigDecorate ==
    /\ Len(classes) < NumBases + 2
    /\ \E t \in ConfigTransformers, PlayerClass \in {Cooperator, Prober, Bare} \cup DerivedClasses :
           Decorate(t, PlayerClass)

ConfigNewPlayer ==
    /\ Len(players) < 1
    /\ \E class \in DerivedClasses : NewPlayer(class, -1)

ConfigRound ==
    \E p \in 1 .. Len(players) :
        /\ Len(players[p].history) < ConfigRounds
        /\ \E proposal \in Actions, opponent_action \in Actions :
           \E random \in RandomSource(players[p].class) :
               Round(p, proposal, random, opponent_action)

ConfigNext == ConfigDecorate \/ ConfigNewPlayer \/ ConfigRound

SpecConfig == Init /\ [][ConfigNext]_vars

----------------------------------------------------------------------------
(* SpecOrder: FlipTransformer and NoisyTransformer(1.0) applied to base    *)
(* classes that define their strategy and, in either order, on top of one  *)
(* another, OrderClasses derived classes in all; one player of a derived   *)
(* class.                                                                  *)

OrderTransformers == {FlipTransformer, NoisyTransformer(Scale)}

OrderDecorate ==
    \E t \in OrderTransformers, PlayerClass \in {Cooperator, Defector, Prober} \cup DerivedClasses :
        /\ depth(classes, PlayerClass) < 2
        /\ Len(classes) < NumBases + OrderClasses
        /\ Decorate(t, PlayerClass)

OrderNewPlayer ==
    /\ Len(players) < 1
    /\ \E class \in DerivedClasses : NewPlayer(class, -1)

OrderRound ==
    \E p \in 1 .. Len(players) :
        /\ Len(players[p].history) < OrderRounds
        /\ \E proposal \in Actions :
           \E random \in RandomSource(players[p].class) :
               Round(p, proposal, random, C)

OrderNext == OrderDecorate \/ OrderNewPlayer \/ OrderRound

SpecOrder == Init /\ [][OrderNext]_vars

----------------------------------------------------------------------------
(* SpecNames: transformers with a non-empty, an empty and no name prefix   *)
(* stacked up to NamesDepth deep; the names of the classes are built by    *)
(* decorate, one player of a derived class plays a round.                  *)

FlipUnnamed == StrategyTransformerFactory("flip_wrapper", NoArgs, "", 0)

NamesTransformers ==
    {FlipTransformer, FlipUnnamed, TrackHistoryTransformer, InitialTransformer(<<D>>)}

NamesDecorate ==
    \E t \in NamesTransformers, PlayerClass \in {Cooperator, Prober, SubCooperator} \cup DerivedClasses :
        /\ depth(classes, PlayerClass) < NamesDepth
        /\ Len(classes) < NumBases + NamesDepth
        /\ Decorate(t, PlayerClass)

NamesNewPlayer ==
    /\ Len(players) < 1
    /\ \E class \in DerivedClasses : NewPlayer(class, -1)

NamesRound ==
    \E p \in 1 .. Len(players) :
        /\ Len(players[p].history) < NamesRounds
        /\ Round(p, C, <<>>, C)

NamesNext == NamesDecorate \/ NamesNewPlayer \/ NamesRound

SpecNames == Init /\ [][NamesNext]_vars

----------------------------------------------------------------------------
(* SpecSerial: retaliate-until-apology transformers applied to one or two  *)
(* base classes; SerialPlayers players of the derived classes play their   *)
(* matches one after the other: a player is constructed only when every    *)
(* earlier player has finished its match.                                  *)

Finished(p) == Len(players[p].history) = SerialRounds

SerialDecorate ==
    /\ Len(classes) < NumBases + 2
    /\ \E t \in RuaTransformers, PlayerClass \in {Cooperator, Defector, Prober} :
           Decorate(t, PlayerClass)

SerialNewPlayer ==
    /\ Len(players) < SerialPlayers
    /\ \A p \in 1 .. Len(players) : Finished(p)
    /\ \E class \in DerivedClasses : NewPlayer(class, -1)

SerialRound ==
    /\ Len(players) > 0
    /\ ~Finished(Len(players))
    /\ \E proposal \in Actions, opponent_action \in Actions :
       \E random \in RandomSource(players[Len(players)].class) :
           Round(Len(players), proposal, random, opponent_action)

SerialNext == SerialDecorate \/ SerialNewPlayer \/ SerialRound

SpecSerial == Init /\ [][SerialNext]_vars

----------------------------------------------------------------------------
(* SpecEmpty: InitialTransformer and FinalTransformer called with the      *)
(* empty list or with no sequence, applied to one base class; one player   *)
(* of the derived class in a match of declared length -1 or 0 .. MaxLength *)
(* against a cooperating opponent.                                         *)

EmptyTransformers ==
    {InitialTransformer(<<>>), FinalTransformer(<<>>),
     InitialTransformer(NoneSeq), FinalTransformer(NoneSeq)}

EmptyDecorate ==
    /\ Len(classes) < NumBases + 1
    /\ \E t \in EmptyTransformers, PlayerClass \in {Cooperator, Prober} :
           Decorate(t, PlayerClass)

EmptyNewPlayer ==
    /\ Len(players) < 1
    /\ \E class \in DerivedClasses, length \in -1 .. MaxLength : NewPlayer(class, length)

EmptyRound ==
    \E p \in 1 .. Len(players) :
        /\ Len(players[p].history) < EmptyRounds
        /\ \E proposal \in Actions :
           \E random \in RandomSource(players[p].class) :
               Round(p, proposal, random, C)

EmptyNext == EmptyDecorate \/ EmptyNewPlayer \/ EmptyRound

SpecEmpty == Init /\ [][EmptyNext]_vars

----------------------------------------------------------------------------
(* SpecLastWord: FlipTransformer and InitialTransformer(seq) stacked two   *)
(* deep, in either order, on one base class; one player of the top class.  *)

LastWordSeqs == UNION {SeqsOfLen(n) : n \in 1 .. LastWordSeqLen}

LastWordTransformers ==
    {FlipTransformer} \cup {InitialTransformer(seq) : seq \in LastWordSeqs}

LastWordDecorate ==
    /\ Len(classes) < NumBases + 2
    /\ \E t \in LastWordTransformers :
       \E PlayerClass \in IF DerivedClasses = {} THEN {Cooperator, Prober} ELSE DerivedClasses :
           Decorate(t, PlayerClass)

LastWordNewPlayer ==
    /\ Len(players) < 1
    /\ Len(classes) = NumBases + 2
    /\ NewPlayer(Len(classes), -1)

LastWordRound ==
    \E p \in 1 .. Len(players) :
        /\ Len(players[p].history) < LastWordRounds
        /\ \E proposal \in Actions :
           \E random \in RandomSource(players[p].class) :
               Round(p, proposal, random, C)

LastWordNext == LastWordDecorate \/ LastWordNewPlayer \/ LastWordRound

SpecLastWord == Init /\ [][LastWordNext]_vars

----------------------------------------------------------------------------
(* Claims *)

IsPrefix(s, t) == Len(s) <= Len(t) /\ s = SubSeq(t, 1, Len(s))

\* the class of player p is the transformer with this wrapper applied to a base class
IsOneLayer(p, wrapper) ==
    /\ p \in 1 .. Len(players)
    /\ IsDerived(classes, players[p].class)
    /\ classes[players[p].class].transformer.strategy_wrapper = wrapper
    /\ ~IsDerived(classes, classes[players[p].class].PlayerClass)

LastLayer == classes[players[last.player].class].transformer

\* the opponent's most recent action when the last call was made
LastOpponentAction == players[last.player].opponent_history[last.round]

OpponentExample == <<C, D, D, C, C>>
RuaExample == <<C, C, D, D, C>>

\* C1: with one retaliate-until-apology transformation applied to one or two
\* base classes and two players in interleaved matches, each player returns the
\* sequence of actions it would return if the other player did not exist (the
\* run of the same calls on a wrapper of its own, kept in solo).
C1_NoInterference ==
    \A p \in 1 .. Len(players) : players[p].history = solo[p].history

\* C2: a single retaliate-until-apology player that starts Calm returns the
\* baseline in round 0 and stays Calm; in a later round it returns Defect and is
\* Retaliating if the opponent's most recent action is Defect, returns Cooperate
\* and becomes Calm if it was Retaliating and that action is Cooperate, and
\* returns the baseline if it was Calm and that action is Cooperate.  On an
\* always-Cooperate base against [C, D, D, C, C] it plays [C, C, D, D, C].
C2_RetaliationMachine ==
    /\ (last.player # 0 /\ IsOneLayer(last.player, "RetaliationWrapper")) =>
          LET o == LastLayer.object
          IN  IF last.round = 0
              THEN last.action = last.proposed /\ ~last.before[o] /\ ~is_retaliating[o]
              ELSE IF LastOpponentAction = D
              THEN last.action = D /\ is_retaliating[o]
              ELSE IF last.before[o]
              THEN last.action = C /\ ~is_retaliating[o]
              ELSE last.action = last.proposed /\ ~is_retaliating[o]
    /\ \A p \in 1 .. Len(players) :
          (/\ IsOneLayer(p, "RetaliationWrapper")
           /\ classes[players[p].class].PlayerClass = Cooperator
           /\ IsPrefix(players[p].opponent_history, OpponentExample))
          => players[p].history = SubSeq(RuaExample, 1, Len(players[p].history))

C2_Witness ==
    /\ Len(players) = 1
    /\ IsOneLayer(1, "RetaliationWrapper")
    /\ classes[players[1].class].PlayerClass = Cooperator
    /\ players[1].opponent_history = OpponentExample
    /\ players[1].history = RuaExample
    /\ last.before[LastLayer.object]
    /\ ~is_retaliating[LastLayer.object]

LastBase == classes[players[last.player].class].PlayerClass

\* C3: with a known length L >= 1 and a non-empty seq of length k, in round r of
\* 0 .. L-1 the final-sequence player returns seq[k - (L - r)] when L - r <= k and
\* the baseline otherwise; with the unknown length -1 it returns the baseline in
\* every round.  FinalTransformer([D]) on an always-Cooperate base with L = 5
\* plays C in rounds 0-3 and D in round 4.
C3_FinalSequence ==
    /\ (last.player # 0 /\ IsOneLayer(last.player, "final_sequence")) =>
          LET seq == LastLayer.wrapper_args.seq
              k == Len(seq)
              L == players[last.player].length
              r == last.round
          IN  /\ (L >= 1 /\ r <= L - 1 /\ L - r <= k) =>
                    last.action = seq[(k - (L - r)) + 1]
              /\ (L >= 1 /\ r <= L - 1 /\ L - r > k) => last.action = last.proposed
              /\ L = -1 => last.action = last.proposed
    /\ \A p \in 1 .. Len(players) :
          (/\ IsOneLayer(p, "final_sequence")
           /\ classes[players[p].class].transformer.wrapper_args.seq = <<D>>
           /\ classes[players[p].class].PlayerClass = Cooperator
           /\ players[p].length = 5
           /\ Len(players[p].history) <= 5)
          => players[p].history = SubSeq(<<C, C, C, C, D>>, 1, Len(players[p].history))

C3_Witness ==
    /\ last.player = 1
    /\ IsOneLayer(1, "final_sequence")
    /\ LastLayer.wrapper_args.seq = <<C, D>>
    /\ LastBase = Prober
    /\ players[1].length = 3
    /\ players[1].history = <<D, C, D>>
    /\ last.proposed = C

\* C4: the initial-sequence player returns seq[i] in round i < len(seq) whatever
\* the baseline, and the baseline in every round i >= len(seq), so no round after
\* the sequence is overridden.  InitialTransformer([D, D, D]) on an
\* always-Cooperate base plays D in rounds 0, 1, 2 and C in every later round.
C4_InitialSequence ==
    /\ (last.player # 0 /\ IsOneLayer(last.player, "initial_sequence")) =>
          LET seq == LastLayer.wrapper_args.seq
              i == last.round
          IN  /\ last.round = Len(players[last.player].history) - 1
              /\ i < Len(seq) => last.action = seq[i + 1]
              /\ i >= Len(seq) => last.action = last.proposed
    /\ \A p \in 1 .. Len(players) :
          (/\ IsOneLayer(p, "initial_sequence")
           /\ classes[players[p].class].PlayerClass = Cooperator)
          => LET seq == classes[players[p].class].transformer.wrapper_args.seq
             IN  \A n \in 1 .. Len(players[p].history) :
                    players[p].history[n] = IF n <= Len(seq) THEN seq[n] ELSE C

C4_Witness ==
    /\ last.player = 1
    /\ IsOneLayer(1, "initial_sequence")
    /\ LastLayer.wrapper_args.seq = <<D, D, D>>
    /\ LastBase = Cooperator
    /\ players[1].history = <<D, D, D, C, C>>

\* the class of player p is outer(inner(base class))
IsTwoLayer(p, outer, inner) ==
    /\ p \in 1 .. Len(players)
    /\ IsDerived(classes, players[p].class)
    /\ classes[players[p].class].transformer.strategy_wrapper = outer
    /\ LET mid == classes[players[p].class].PlayerClass
       IN  /\ IsDerived(classes, mid)
           /\ classes[mid].transformer.strategy_wrapper = inner
           /\ ~IsDerived(classes, classes[mid].PlayerClass)

\* some transformer on the way from class X down to its base class has this wrapper
RECURSIVE HasWrapper(_, _)
HasWrapper(X, wrapper) ==
    /\ X # 0
    /\ IsDerived(classes, X)
    /\ \/ classes[X].transformer.strategy_wrapper = wrapper
       \/ HasWrapper(classes[X].PlayerClass, wrapper)

\* C5: a history-tracking player (the transformation applied once to a base)
\* returns in every round the action proposed to its wrapper; after N calls its
\* log has length N and is the sequence of the N actions it returned; the log is
\* created by the first call without an error and is the log of that instance
\* alone.
C5_HistoryTracking ==
    /\ (last.player # 0 /\ IsOneLayer(last.player, "history_track_wrapper")) =>
          last.action = last.proposed
    /\ \A p \in 1 .. Len(players) :
          IsOneLayer(p, "history_track_wrapper") =>
             /\ players[p].raised = ""
             /\ players[p].recorded_history.log = players[p].history
             /\ players[p].recorded_history.has = (Len(players[p].history) > 0)

C5_Witness ==
    /\ Len(players) = 2
    /\ IsOneLayer(1, "history_track_wrapper")
    /\ IsOneLayer(2, "history_track_wrapper")
    /\ players[1].class = players[2].class
    /\ players[1].recorded_history.log = <<C, D>>
    /\ players[2].recorded_history.log = <<D>>

\* C6: when the history-tracking transformation is composed with other
\* transformations in any order, after N rounds the log has length N and is the
\* sequence of the final actions the composed player returned.
C6_TrackingUnderComposition ==
    \A p \in 1 .. Len(players) :
        (HasWrapper(players[p].class, "history_track_wrapper") /\ Len(players[p].history) > 0)
        => players[p].recorded_history.log = players[p].history

\* C7: the Flip-derived player returns the opposite of the base's proposed
\* action, Flip applied twice returns the base's proposed action, and Flip on an
\* always-Cooperate base returns Defect in every round.
C7_Flip ==
    /\ (last.player # 0 /\ IsOneLayer(last.player, "flip_wrapper")) =>
          /\ last.action \in Actions
          /\ last.action # last.proposed
    /\ (last.player # 0 /\ IsTwoLayer(last.player, "flip_wrapper", "flip_wrapper")) =>
          last.action = last.proposed
    /\ \A p \in 1 .. Len(players) :
          (IsOneLayer(p, "flip_wrapper") /\ classes[players[p].class].PlayerClass = Cooperator)
          => \A n \in 1 .. Len(players[p].history) : players[p].history[n] = D

C7_Witness ==
    /\ last.player = 1
    /\ IsTwoLayer(1, "flip_wrapper", "flip_wrapper")
    /\ classes[classes[players[1].class].PlayerClass].PlayerClass = Prober
    /\ players[1].history = <<C, D>>
    /\ last.proposed = D

\* C8: for every draw r in [0, 1) the Noisy player returns the flipped proposed
\* action exactly when r < noise: with noise = 0 it returns the proposed action,
\* with noise = 1 the flipped one; each call makes one draw.
C8_Noisy ==
    (last.player # 0 /\ IsOneLayer(last.player, "noisy_wrapper")) =>
        LET noise == LastLayer.wrapper_args.num
        IN  /\ last.draws = 1
            /\ last.action \in Actions
            /\ (last.action # last.proposed) = (last.random[1] < noise)
            /\ noise = 0 => last.action = last.proposed
            /\ noise = Scale => last.action # last.proposed

C8_Witness ==
    /\ last.player = 1
    /\ IsOneLayer(1, "noisy_wrapper")
    /\ LastLayer.wrapper_args.num = 1
    /\ LastBase = Prober
    /\ last.round = 1
    /\ last.random = <<0>>
    /\ last.proposed = C
    /\ players[1].history = <<C, D>>

\* C9: the Forgiver player returns Cooperate whenever the base proposes
\* Cooperate; when the base proposes Defect it returns the outcome of one
\* probabilistic choice with parameter p, so on an always-Defect base it plays
\* Cooperate in every round with p = 1 and Defect in every round with p = 0.
C9_Forgiver ==
    /\ (last.player # 0 /\ IsOneLayer(last.player, "forgiver_wrapper")) =>
          LET prob == LastLayer.wrapper_args.num
          IN  /\ last.proposed = C => (last.action = C /\ last.draws = 0)
              /\ last.proposed = D =>
                    /\ last.draws = 1
                    /\ last.action = IF last.random[1] < prob THEN C ELSE D
    /\ \A p \in 1 .. Len(players) :
          (IsOneLayer(p, "forgiver_wrapper") /\ classes[players[p].class].PlayerClass = Defector)
          => LET prob == classes[players[p].class].transformer.wrapper_args.num
             IN  \A n \in 1 .. Len(players[p].history) :
                    /\ prob = Scale => players[p].history[n] = C
                    /\ prob = 0 => players[p].history[n] = D

C9_Witness ==
    /\ last.player = 1
    /\ IsOneLayer(1, "forgiver_wrapper")
    /\ LastLayer.wrapper_args.num = Scale
    /\ LastBase = Defector
    /\ players[1].history = <<C, C>>
    /\ last.draws = 1

\* C10: whatever the base class (static or instance strategy, defined by the
\* class, inherited from an ancestor, or itself a derived class), the derived
\* strategy calls the base strategy with the convention it requires and applies
\* the wrapper, without raising.
C10_CallingConvention ==
    /\ \A p \in 1 .. Len(players) : players[p].raised = ""
    /\ last.player # 0 => last.action \in Actions

\* the exceptions a misconfigured class raises: no strategy to call, or a wrapper
\* called with arguments it cannot take
ConfigurationErrors == {KeyError, TypeError, "AttributeError"}

\* C11: a configuration error (a base class without a strategy, a wrapper that
\* cannot take the arguments passed to it) is reported when the transformer is
\* applied; it never happens that the application succeeds (the derived class
\* exists and a player of it was made) and the error is raised by a later call
\* of strategy.
C11_FailFast ==
    \A p \in 1 .. Len(players) : players[p].raised \notin ConfigurationErrors

\* C12: in every round, Flip applied on top of Noisy(1.0)(Base) and Noisy(1.0)
\* applied on top of Flip(Base) return the same action, the base's proposed one.
C12_FlipNoisyOrder ==
    (/\ last.player # 0
     /\ \/ IsTwoLayer(last.player, "flip_wrapper", "noisy_wrapper")
        \/ IsTwoLayer(last.player, "noisy_wrapper", "flip_wrapper"))
    => /\ last.action = last.proposed
       /\ last.draws = 1

C12_Witness ==
    /\ last.player = 1
    /\ IsTwoLayer(1, "noisy_wrapper", "flip_wrapper")
    /\ classes[classes[players[1].class].PlayerClass].PlayerClass = Prober
    /\ players[1].history = <<D, C>>
    /\ last.proposed = C
    /\ last.random = <<Scale - 1>>

\* the action the base class X itself returns in the last call
OwnBaseAction(X) == IF classes[X].behaviour = "any" THEN last.proposed ELSE classes[X].behaviour

\* C13: applying a transformation adds a new class and leaves the base class as
\* it was (strategy, name and class name); the new class is a subclass of the
\* base it was applied to, and the same stateless transformation applied to two
\* bases gives two classes each of which calls the strategy of its own base,
\* once per call.
C13_NewTypeOwnBase ==
    /\ Len(classes) >= NumBases
    /\ \A b \in 1 .. NumBases : classes[b] = BaseClasses[b]
    /\ \A c \in DerivedClasses :
         /\ classes[c].PlayerClass \in 1 .. (c - 1)
         /\ resolve(classes, c) = c
         /\ classes[c] # classes[classes[c].PlayerClass]
    /\ (last.player # 0 /\ (IsOneLayer(last.player, "flip_wrapper") \/ IsOneLayer(last.player, "noisy_wrapper")))
       => /\ last.action = flip_action(OwnBaseAction(LastBase))
          /\ last.base_calls = 1

C13_Witness ==
    /\ \E c1, c2 \in DerivedClasses :
         /\ classes[c1].transformer = FlipTransformer
         /\ classes[c2].transformer = FlipTransformer
         /\ classes[c1].PlayerClass = Cooperator
         /\ classes[c2].PlayerClass = Defector
         /\ Len(players) = 1
         /\ players[1].class = c2
    /\ last.player = 1
    /\ players[1].history = <<C, C>>

\* C14: a transformation with a non-empty name prefix P applied to a class with
\* class name I and name N gives class name P+I and name "P N"; with no prefix
\* or an empty one both are those of the base; T2 (prefix P2) applied on top of
\* T1 (prefix P1) gives P2+P1+I and "P2 P1 N".
C14_Naming ==
    \A c \in DerivedClasses :
        LET P == classes[c].transformer.name_prefix
            base == classes[classes[c].PlayerClass]
        IN  /\ P \in {None, ""} =>
                 /\ classes[c].cname = base.cname
                 /\ classes[c].name = base.name
            /\ P \notin {None, ""} =>
                 /\ classes[c].cname = P \o base.cname
                 /\ classes[c].name = P \o " " \o base.name
            /\ (/\ classes[c].transformer = FlipTransformer
                /\ base.transformer = TrackHistoryTransformer
                /\ base.PlayerClass = SubCooperator) =>
                 /\ classes[c].cname = "FlippedHistoryTrackingSubCooperator"
                 /\ classes[c].name = "Flipped HistoryTracking Cooperator"
            /\ (/\ classes[c].transformer = FlipTransformer
                /\ base.transformer = InitialTransformer(<<D>>)
                /\ base.PlayerClass = Prober) =>
                 /\ classes[c].cname = "FlippedProber"
                 /\ classes[c].name = "Flipped Prober"

C14_Witness ==
    \E c, e \in DerivedClasses :
        /\ classes[c].transformer = FlipTransformer
        /\ classes[c].PlayerClass \in DerivedClasses
        /\ classes[classes[c].PlayerClass].transformer = TrackHistoryTransformer
        /\ classes[classes[c].PlayerClass].PlayerClass = SubCooperator
        /\ classes[c].name = "Flipped HistoryTracking Cooperator"
        /\ Len(players) = 1
        /\ players[1].class = c

C14_WitnessNoPrefix ==
    \E c \in DerivedClasses :
        /\ classes[c].transformer = FlipUnnamed
        /\ classes[c].PlayerClass = Prober
        /\ classes[c].name = "Prober"

\* C15: every new retaliate-until-apology player starts Calm, also when an
\* earlier player of a class made by the same transformer finished its match
\* while Retaliating: before its first round the wrapper it uses is not
\* retaliating, and in its round 1, if the opponent's first action was
\* Cooperate, it returns its baseline action.
C15_StartsCalm ==
    /\ \A p \in 1 .. Len(players) :
          (IsOneLayer(p, "RetaliationWrapper") /\ Len(players[p].history) = 0)
          => ~is_retaliating[classes[players[p].class].transformer.object]
    /\ (/\ last.player # 0
        /\ IsOneLayer(last.player, "RetaliationWrapper")
        /\ last.round = 1
        /\ LastOpponentAction = C)
       => last.action = last.proposed

\* C16: with a known length L >= 0, a non-empty seq and any number h of rounds
\* already played (h >= L included), the final-sequence player returns an action
\* and never indexes outside seq, and whenever index = L - h <= len(seq) the
\* action is seq[len(seq) - index].
C16_FinalSequencePastLength ==
    (/\ last.player # 0
     /\ IsOneLayer(last.player, "final_sequence")
     /\ players[last.player].length >= 0) =>
        LET seq == LastLayer.wrapper_args.seq
            index == players[last.player].length - last.round
        IN  /\ last.action \in Actions
            /\ players[last.player].raised = ""
            /\ index > Len(seq) => last.action = last.proposed
            /\ index <= Len(seq) => last.action = PyIndex(seq, Len(seq) - index)

\* C17: the transformer made by InitialTransformer([]) or FinalTransformer([])
\* uses the empty sequence as given: a player of a class it makes overrides no
\* round and returns the baseline in every round of its match.
C17_EmptySequence ==
    (/\ last.player # 0
     /\ \/ IsOneLayer(last.player, "initial_sequence") /\ LastLayer = InitialTransformer(<<>>)
        \/ IsOneLayer(last.player, "final_sequence") /\ LastLayer = FinalTransformer(<<>>)
     /\ last.round < players[last.player].length \/ players[last.player].length = -1)
    => /\ LastLayer.wrapper_args.seq = <<>>
       /\ last.action = last.proposed

\* the sequence of the initial-sequence layer of the two-layer class of the
\* player of the last call, outer or inner
OuterSeq == classes[players[last.player].class].transformer.wrapper_args.seq
InnerSeq == classes[LastBase].transformer.wrapper_args.seq

\* C18: a call on T2 applied on top of T1(Base) runs the base strategy once,
\* then the wrapper of T1, then the wrapper of T2, so the outer one decides:
\* Flip on top of InitialSequence(seq)(Base) returns flip(seq[i]) in every round
\* i < len(seq), and InitialSequence(seq) on top of Flip(Base) returns seq[i];
\* in the later rounds both return the flipped baseline.
C18_OuterHasLastWord ==
    /\ (last.player # 0 /\ IsTwoLayer(last.player, "flip_wrapper", "initial_sequence")) =>
          /\ last.base_calls = 1
          /\ last.action = flip_action(IF last.round < Len(InnerSeq)
                                       THEN InnerSeq[last.round + 1]
                                       ELSE last.proposed)
    /\ (last.player # 0 /\ IsTwoLayer(last.player, "initial_sequence", "flip_wrapper")) =>
          /\ last.base_calls = 1
          /\ last.action = IF last.round < Len(OuterSeq)
                           THEN OuterSeq[last.round + 1]
                           ELSE flip_action(last.proposed)

C18_Witness ==
    /\ last.player = 1
    /\ IsTwoLayer(1, "flip_wrapper", "initial_sequence")
    /\ InnerSeq = <<C, D>>
    /\ classes[LastBase].PlayerClass = Prober
    /\ players[1].history = <<D, C, D>>
    /\ last.proposed = C

C18_WitnessInitialOuter ==
    /\ last.player = 1
    /\ IsTwoLayer(1, "initial_sequence", "flip_wrapper")
    /\ OuterSeq = <<C, D>>
    /\ classes[LastBase].PlayerClass = Prober
    /\ players[1].history = <<C, D>>
    /\ last.proposed = D

\* C19: for a single retaliate-until-apology player on a fresh wrapper, after
\* every call in a round n >= 1 the wrapper is retaliating exactly when the
\* opponent's most recent action is Defect, and the action of round n is Defect
\* if the opponent played Defect in round n-1, Cooperate if the opponent played
\* Cooperate in round n-1 and Defect in round n-2 (n >= 2), and the baseline
\* otherwise.
C19_RetaliationByHistory ==
    (/\ last.player # 0
     /\ IsOneLayer(last.player, "RetaliationWrapper")
     /\ last.round >= 1) =>
        LET n == last.round
            opp == players[last.player].opponent_history
        IN  /\ is_retaliating[LastLayer.object] = (opp[n] = D)
            /\ last.action = IF opp[n] = D THEN D
                             ELSE IF n >= 2 /\ opp[n - 1] = D THEN C
                             ELSE last.proposed

C19_Witness ==
    /\ last.player = 1
    /\ IsOneLayer(1, "RetaliationWrapper")
    /\ LastBase = Prober
    /\ players[1].opponent_history = <<C, D, C, C>>
    /\ players[1].history = <<D, D, D, C>>
    /\ last.proposed = D
    /\ ~is_retaliating[LastLayer.object]

====
